---- MODULE Spec2Model ----
(***************************************************************************)
(* Model of controller.c: scheduler() applied to a batch of BATCHSIZE      *)
(* requests.  The Row Aliaser loop (lines 57-79), the Bank Conflict        *)
(* Grouper loop (lines 90-111) and the scheduling step (lines 121-124)     *)
(* are modelled one outer-loop iteration per action.  Arrays keep the      *)
(* code's 0-based indexes; an array element that has not been written yet  *)
(* is outside the DOMAIN of the function that models the array.            *)
(***************************************************************************)
EXTENDS Integers, Sequences, FiniteSets, TLC

\* ---- program constants ----
BATCHSIZE == 5

\* ---- bounds of the input space ----
MaxBankGroup == 2
MaxRow == 4
MaxCol == 1

Req(v, bg, b, r, c) ==
    [valid |-> v, bank_group |-> bg, bank |-> b, row |-> r, col |-> c]

\* The batch main() builds.
MainBatch ==
    [k \in 0..(BATCHSIZE - 1) |->
        CASE k = 0 -> Req(1, 0, 0, 1, 6)
          [] k = 1 -> Req(1, 0, 0, 2, 5)
          [] k = 2 -> Req(1, 0, 0, 1, 3)
          [] k = 3 -> Req(1, 0, 0, 4, 4)
          [] k = 4 -> Req(1, 2, 1, 2, 2)]

\* All batches of BATCHSIZE requests (struct request) whose fields are
\* drawn from the given sets.
Family(V, BG, B, R, C) ==
    [0..(BATCHSIZE - 1) ->
        [valid : V, bank_group : BG, bank : B, row : R, col : C]]

\* Requests with at most one negative field.
NegRequests ==
    {r \in [valid : {1}, bank_group : {-1, 0}, bank : {-1, 0},
            row : {-1, 0}, col : {-1, 0}] :
        Cardinality({f \in {"bank_group", "bank", "row", "col"} : r[f] < 0}) <= 1}

\* The batches scheduler() is run on: main()'s batch and families that
\* vary, in turn, the bank pairs, the rows of one bank, the full address,
\* the columns, the valid flag and the sign of each field.
Batches ==
    {MainBatch}
    \cup Family({1}, 0..MaxBankGroup, {0, 1}, {0}, {0})
    \cup Family({1}, {0}, {0}, 0..MaxRow, {0})
    \cup Family({1}, {0, 2}, {0, 1}, {1, 2}, {0})
    \cup Family({1}, {0}, {0}, {0, 1}, 0..MaxCol)
    \cup Family({0, 1}, {0}, {0, 1}, {0, 1}, {0})
    \cup [0..(BATCHSIZE - 1) -> NegRequests]

VARIABLES req_batch, pc, i, batch_aliased, row_counter,
          row_conflicts, bank_counter, commands

vars == <<req_batch, pc, i, batch_aliased, row_counter,
          row_conflicts, bank_counter, commands>>

\* ---- Row Aliaser ----

\* SameRow without the bank comparison.
SameRowNoBank(r, g) ==
    /\ r.bank_group = g.bank_group
    /\ r.row = g.row

\* The condition of the inner loop's if (lines 60-62).
SameRow(r, g) ==
    /\ r.bank_group = g.bank_group
    /\ r.bank = g.bank
    /\ r.row = g.row

\* FindRow taking a negative row for "no row": such a request never matches.
FindRowSentinel(ba, rc, r) ==
    LET hits == {j \in 0..(rc - 1) : SameRow(r, ba[j])}
    IN  IF hits = {} \/ r.row < 0 THEN -1
        ELSE CHOOSE j \in hits : \A k \in hits : j <= k

\* The inner loop (lines 59-68): the first j < rc whose group matches r,
\* or -1 when the loop ends with found = false.
FindRow(ba, rc, r) ==
    LET hits == {j \in 0..(rc - 1) : SameRow(r, ba[j])}
    IN  IF hits = {} THEN -1
        ELSE CHOOSE j \in hits : \A k \in hits : j <= k

\* array[idx] = val; an index not written before joins the domain.
Store(arr, idx, val) ==
    [k \in (DOMAIN arr) \cup {idx} |-> IF k = idx THEN val ELSE arr[k]]

\* AddCol dropping a column the group already holds.
AddColDedup(g, c) ==
    IF \E n \in DOMAIN g.col : g.col[n] = c THEN g
    ELSE [g EXCEPT !.col = Store(g.col, g.requests, c),
                   !.requests = g.requests + 1]

\* AddCol writing one element past the next free one.
AddColOffByOne(g, c) ==
    [g EXCEPT !.col = Store(g.col, g.requests + 1, c),
              !.requests = g.requests + 1]

\* Lines 64-65: append the column to group j.
AddCol(g, c) ==
    [g EXCEPT !.col = Store(g.col, g.requests, c),
              !.requests = g.requests + 1]

\* NewRow numbering the groups from 0.
NewRowZeroBased(rc, r) ==
    [valid |-> 1, bank_group |-> r.bank_group, bank |-> r.bank,
     row |-> r.row, col |-> Store(<<>>, 0, r.col), requests |-> 1,
     id |-> rc]

\* Lines 70-76: the group opened at index rc.
NewRow(rc, r) ==
    [valid |-> 1, bank_group |-> r.bank_group, bank |-> r.bank,
     row |-> r.row, col |-> Store(<<>>, 0, r.col), requests |-> 1,
     id |-> rc + 1]

\* One iteration of the outer loop (lines 57-79) for request r.
AliasArr(ba, rc, r) ==
    LET j == FindRow(ba, rc, r)
    IN  IF j >= 0 THEN Store(ba, j, AddCol(ba[j], r.col))
        ELSE Store(ba, rc, NewRow(rc, r))

AliasCnt(ba, rc, r) ==
    IF FindRow(ba, rc, r) >= 0 THEN rc ELSE rc + 1

AliasStep ==
    /\ pc = "alias"
    /\ i < BATCHSIZE
    /\ batch_aliased' = AliasArr(batch_aliased, row_counter, req_batch[i])
    /\ row_counter' = AliasCnt(batch_aliased, row_counter, req_batch[i])
    /\ i' = i + 1
    /\ UNCHANGED <<req_batch, pc, row_conflicts, bank_counter, commands>>

\* Loop exit at line 79; the bank loop starts with i = 0 (lines 90-92).
AliasDone ==
    /\ pc = "alias"
    /\ i >= BATCHSIZE
    /\ pc' = "group"
    /\ i' = 0
    /\ UNCHANGED <<req_batch, batch_aliased, row_counter, row_conflicts,
                   bank_counter, commands>>

\* ---- Bank Conflict Grouper ----

\* SameBank without the bank_group comparison.
SameBankNoGroup(q, g) == q.bank = g.bank

\* The condition of the inner loop's if (lines 95-96).
SameBank(q, g) ==
    /\ q.bank_group = g.bank_group
    /\ q.bank = g.bank

\* The inner loop (lines 94-102).
FindBank(rcf, bc, g) ==
    LET hits == {j \in 0..(bc - 1) : SameBank(rcf[j], g)}
    IN  IF hits = {} THEN -1
        ELSE CHOOSE j \in hits : \A k \in hits : j <= k

\* Lines 98-99.
AddRow(q, id) ==
    [q EXCEPT !.rows = Store(q.rows, q.requests, id),
              !.requests = q.requests + 1]

\* Lines 104-108.
NewBank(g) ==
    [valid |-> 1, bank_group |-> g.bank_group, bank |-> g.bank,
     rows |-> Store(<<>>, 0, g.id), requests |-> 1]

\* One iteration of the outer loop (lines 92-111) for row group g.
GroupArr(rcf, bc, g) ==
    LET j == FindBank(rcf, bc, g)
    IN  IF j >= 0 THEN Store(rcf, j, AddRow(rcf[j], g.id))
        ELSE Store(rcf, bc, NewBank(g))

GroupCnt(rcf, bc, g) ==
    IF FindBank(rcf, bc, g) >= 0 THEN bc ELSE bc + 1

GroupStep ==
    /\ pc = "group"
    /\ i < row_counter
    /\ row_conflicts' = GroupArr(row_conflicts, bank_counter, batch_aliased[i])
    /\ bank_counter' = GroupCnt(row_conflicts, bank_counter, batch_aliased[i])
    /\ i' = i + 1
    /\ UNCHANGED <<req_batch, pc, batch_aliased, row_counter, commands>>

GroupDone ==
    /\ pc = "group"
    /\ i >= row_counter
    /\ pc' = "schedule"
    /\ UNCHANGED <<req_batch, i, batch_aliased, row_counter, row_conflicts,
                   bank_counter, commands>>

\* ---- scheduling step ----

\* Lines 121-124: the header is printed and the function returns; no
\* command is computed or emitted.
Emitted(rcf, bc, ba, cmds) == cmds

Schedule ==
    /\ pc = "schedule"
    /\ commands' = Emitted(row_conflicts, bank_counter, batch_aliased, commands)
    /\ pc' = "done"
    /\ UNCHANGED <<req_batch, i, batch_aliased, row_counter, row_conflicts,
                   bank_counter>>

Init ==
    /\ req_batch \in Batches
    /\ pc = "alias"
    /\ i = 0
    /\ batch_aliased = <<>>
    /\ row_counter = 0
    /\ row_conflicts = <<>>
    /\ bank_counter = 0
    /\ commands = <<>>

Next ==
    \/ AliasStep
    \/ AliasDone
    \/ GroupStep
    \/ GroupDone
    \/ Schedule

Spec == Init /\ [][Next]_vars

\* ---- notions the properties are stated with ----

\* The address of a request, RowGroup or command, and its bank part.
Triple(x) == <<x.bank_group, x.bank, x.row>>
Pair(x) == <<x.bank_group, x.bank>>

\* Batch positions the Row Aliaser has processed.
Seen == IF pc = "alias" THEN 0..(i - 1) ELSE 0..(BATCHSIZE - 1)

\* Indexes of the RowGroups the Bank Conflict Grouper has processed.
Grouped ==
    CASE pc = "alias" -> {}
      [] pc = "group" -> 0..(i - 1)
      [] OTHER -> 0..(row_counter - 1)

RowIdx == 0..(row_counter - 1)
BankIdx == 0..(bank_counter - 1)

ValidSeen == {k \in Seen : req_batch[k].valid = 1}

\* Processed batch positions whose (bank_group, bank, row) is that of RowGroup j.
Members(j) == {k \in Seen : Triple(req_batch[k]) = Triple(batch_aliased[j])}

\* The n-th (from 0) position of a set of batch positions, in batch order.
Nth(S, n) == CHOOSE k \in S : Cardinality({m \in S : m < k}) = n

\* Processed RowGroups whose (bank_group, bank) is that of BankQueue q.
QueueRows(q) == {j \in Grouped : Pair(row_conflicts[q]) = Pair(batch_aliased[j])}

\* BankQueues that list RowGroup id.
QueuesOf(id) ==
    {q \in BankIdx : \E n \in DOMAIN row_conflicts[q].rows :
                        row_conflicts[q].rows[n] = id}

RECURSIVE SumRequests(_, _)
SumRequests(arr, n) ==
    IF n = 0 THEN 0 ELSE arr[n - 1].requests + SumRequests(arr, n - 1)

Negative(r) == r.bank_group < 0 \/ r.bank < 0 \/ r.row < 0 \/ r.col < 0

CountKind(kind) ==
    Cardinality({n \in DOMAIN commands : commands[n].kind = kind})

\* ---- C1 ----
\* C1: every valid request is in exactly one RowGroup, every RowGroup id is
\* in exactly one BankQueue, and the columns held by the RowGroups are, as a
\* multiset, exactly the columns of the valid requests: a request that is
\* not valid contributes no column.
C1_Partition ==
    /\ \A k \in ValidSeen :
          Cardinality({j \in RowIdx : Triple(req_batch[k]) = Triple(batch_aliased[j])}) = 1
    /\ \A j \in Grouped : Cardinality(QueuesOf(batch_aliased[j].id)) = 1
    /\ \A j \in RowIdx : \A c \in {req_batch[k].col : k \in Seen} :
          Cardinality({n \in DOMAIN batch_aliased[j].col :
                          batch_aliased[j].col[n] = c})
          = Cardinality({k \in Members(j) \cap ValidSeen : req_batch[k].col = c})
    /\ SumRequests(batch_aliased, row_counter) = Cardinality(ValidSeen)

\* ---- C2 ----
\* C2: an entry whose valid flag is 0 is skipped: it opens no RowGroup and
\* adds no column, and a batch whose entries are all invalid ends with
\* row_counter = 0 and bank_counter = 0.
C2_InvalidSkipped ==
    /\ \A j \in RowIdx :
          /\ Members(j) \cap ValidSeen # {}
          /\ batch_aliased[j].requests = Cardinality(Members(j) \cap ValidSeen)
    /\ (pc = "done" /\ ValidSeen = {}) => (row_counter = 0 /\ bank_counter = 0)

\* ---- C3 ----
\* C3: two processed requests are in the same RowGroup iff their bank_group,
\* bank and row are equal: every processed request has exactly one RowGroup
\* with its triple, no two RowGroups carry the same triple, and every column
\* recorded in a RowGroup is the column of a processed request with the
\* RowGroup's triple.
C3_SameGroupIffSameTriple ==
    /\ \A k \in Seen :
          Cardinality({j \in RowIdx : Triple(req_batch[k]) = Triple(batch_aliased[j])}) = 1
    /\ \A j1, j2 \in RowIdx :
          Triple(batch_aliased[j1]) = Triple(batch_aliased[j2]) => j1 = j2
    /\ \A j \in RowIdx : \A n \in DOMAIN batch_aliased[j].col :
          \E k \in Members(j) : req_batch[k].col = batch_aliased[j].col[n]

\* A finished run in which two requests share a RowGroup and two requests
\* that differ only in their bank are in different RowGroups.
C3_Witness ==
    /\ pc = "done"
    /\ \E j \in RowIdx : batch_aliased[j].requests >= 2
    /\ \E k1, k2 \in Seen :
          /\ req_batch[k1].bank_group = req_batch[k2].bank_group
          /\ req_batch[k1].row = req_batch[k2].row
          /\ req_batch[k1].bank # req_batch[k2].bank

\* ---- C4 ----
\* C4: two processed RowGroups are in the same BankQueue iff their
\* bank_group and bank are equal; BankQueues are in the order their
\* (bank_group, bank) is first seen among the RowGroups, and every BankQueue
\* lists the ids of its RowGroups in the Row Aliaser's order (strictly
\* increasing).
C4_BankQueues ==
    /\ \A q1, q2 \in BankIdx :
          Pair(row_conflicts[q1]) = Pair(row_conflicts[q2]) => q1 = q2
    /\ \A j \in Grouped :
          \E q \in BankIdx :
             /\ QueuesOf(batch_aliased[j].id) = {q}
             /\ Pair(row_conflicts[q]) = Pair(batch_aliased[j])
    /\ \A q \in BankIdx :
          LET Q == row_conflicts[q]
          IN  /\ Q.requests = Cardinality(QueueRows(q))
              /\ DOMAIN Q.rows = 0..(Q.requests - 1)
              /\ \A n \in DOMAIN Q.rows :
                    Q.rows[n] = batch_aliased[Nth(QueueRows(q), n)].id
              /\ \A n, m \in DOMAIN Q.rows : n < m => Q.rows[n] < Q.rows[m]
    /\ \A q1, q2 \in BankIdx :
          q1 < q2 => row_conflicts[q1].rows[0] < row_conflicts[q2].rows[0]

\* A finished run with several BankQueues, one of them holding several
\* RowGroups and not created first.
C4_Witness ==
    /\ pc = "done"
    /\ bank_counter >= 3
    /\ \E q \in BankIdx : q > 0 /\ row_conflicts[q].requests >= 2

\* ---- C5 ----
\* C5: RowGroups are in the order of the first batch position that refers to
\* their triple, one RowGroup per distinct triple processed so far, and the
\* k-th RowGroup has id k (1-based, dense) in every state from its creation
\* on.
C5_RowGroupOrderAndIds ==
    /\ row_counter =
          Cardinality({Triple(req_batch[k]) : k \in Seen})
    /\ DOMAIN batch_aliased = RowIdx
    /\ \A j \in RowIdx :
          /\ batch_aliased[j].id = j + 1
          /\ Members(j) # {}
    /\ \A j1, j2 \in RowIdx :
          j1 < j2 => Nth(Members(j1), 0) < Nth(Members(j2), 0)

\* A finished run with three or more RowGroups in which a request joined an
\* earlier RowGroup after a later one had been opened.
C5_Witness ==
    /\ pc = "done"
    /\ row_counter >= 3
    /\ \E j1, j2 \in RowIdx :
          /\ j1 < j2
          /\ \E k \in Members(j1) : k > Nth(Members(j2), 0)

\* ---- C6 ----
\* C6: the columns of a RowGroup are the columns of the processed requests
\* with its triple, in batch order, repeated columns included: requests is
\* the number of those batch entries.
C6_ColumnsInArrivalOrder ==
    \A j \in RowIdx :
       LET g == batch_aliased[j]
       IN  /\ g.requests = Cardinality(Members(j))
           /\ DOMAIN g.col = 0..(g.requests - 1)
           /\ \A n \in DOMAIN g.col : g.col[n] = req_batch[Nth(Members(j), n)].col

\* A finished run with a RowGroup that holds a column twice and whose
\* columns are not in increasing order.
C6_Witness ==
    /\ pc = "done"
    /\ \E j \in RowIdx :
          LET g == batch_aliased[j]
          IN  /\ \E n, m \in DOMAIN g.col : n < m /\ g.col[n] = g.col[m]
              /\ \E n, m \in DOMAIN g.col : n < m /\ g.col[n] > g.col[m]

\* ---- C7 ----
\* C7: when the scheduling call has finished, the emitted commands hold one
\* ACTIVATE and one PRECHARGE per RowGroup and one READ per column of every
\* RowGroup, the ACTIVATE before and the PRECHARGE after the RowGroup's
\* READs; for the batch of main() that is 4 ACTIVATE, 5 READ and 4 PRECHARGE.
C7_CommandsEmitted ==
    pc = "done" =>
       /\ CountKind("ACTIVATE") = row_counter
       /\ CountKind("READ") = SumRequests(batch_aliased, row_counter)
       /\ CountKind("PRECHARGE") = row_counter
       /\ \A j \in RowIdx :
             \E a, p \in DOMAIN commands :
                /\ commands[a].kind = "ACTIVATE"
                /\ commands[p].kind = "PRECHARGE"
                /\ Triple(commands[a]) = Triple(batch_aliased[j])
                /\ Triple(commands[p]) = Triple(batch_aliased[j])
                /\ a < p
                /\ Cardinality({n \in DOMAIN commands :
                                  /\ commands[n].kind = "READ"
                                  /\ Pair(commands[n]) = Pair(batch_aliased[j])
                                  /\ a < n /\ n < p})
                   = batch_aliased[j].requests
       /\ req_batch = MainBatch =>
             /\ CountKind("ACTIVATE") = 4
             /\ CountKind("READ") = 5
             /\ CountKind("PRECHARGE") = 4

C10_ArrayBounds ==
    /\ row_counter <= BATCHSIZE
    /\ bank_counter <= row_counter
    /\ DOMAIN batch_aliased = RowIdx
    /\ DOMAIN row_conflicts = BankIdx
    /\ \A j \in RowIdx :
          /\ batch_aliased[j].requests <= BATCHSIZE
          /\ DOMAIN batch_aliased[j].col = 0..(batch_aliased[j].requests - 1)
    /\ \A q \in BankIdx :
          /\ row_conflicts[q].requests <= BATCHSIZE
          /\ DOMAIN row_conflicts[q].rows = 0..(row_conflicts[q].requests - 1)
    /\ SumRequests(batch_aliased, row_counter) = Cardinality(Seen)
    /\ SumRequests(row_conflicts, bank_counter) = Cardinality(Grouped)

\* A finished run that filled batch_aliased (BATCHSIZE RowGroups) and the
\* rows[] of one BankQueue (BATCHSIZE rows).
C10_Witness ==
    /\ pc = "done"
    /\ row_counter = BATCHSIZE
    /\ \E q \in BankIdx : row_conflicts[q].requests = BATCHSIZE

====
